---- MODULE Spec2Model ----
\* Model of dz_python.py: the DatabaseConnection gateway, the committed
\* relational store (suppliers, products, orders, order_items), the unit of
\* work of WaosaDataFiller.fill_with_sample_data, OrderManager's retrieval and
\* listing, and ODTExporter's document.
\*
\* Prices and amounts are the integers 100, 200, 150 and their products and
\* sums: the Float values of the source are exactly these numbers, every
\* product and sum of them is exact in binary floating point.
EXTENDS Integers, Sequences, FiniteSets, TLC

VARIABLES
    engine,          \* DatabaseConnection.engine: 0 is None, n > 0 the n-th engine created
    SessionLocal,    \* DatabaseConnection.SessionLocal: 0 is None, n > 0 a factory bound to engine n
    enginesCreated,  \* number of create_engine calls made on this DatabaseConnection
    tables,          \* TRUE once Base.metadata.create_all has created the schema in the store
    suppliers,       \* committed rows of table "suppliers"; the primary key is the index
    products,        \* committed rows of table "products"
    orders,          \* committed rows of table "orders"
    order_items,     \* committed rows of table "order_items"
    now,             \* the clock read by datetime.utcnow
    openSessions,    \* sessions obtained from get_session and not yet closed
    pc,              \* position of the running operation; "idle" between operations
    outcome,         \* how the last operation ended: "ok" or the exception raised; "none" before and while one runs
    sessNew,         \* fill_with_sample_data: objects pending in the session
    newOrders,       \* fill_with_sample_data: Order objects built so far
    newItems,        \* fill_with_sample_data: OrderItem objects built so far
    k,               \* fill_with_sample_data: index of the current order_data
    j,               \* fill_with_sample_data: index of the current item_data
    total_amount,    \* fill_with_sample_data: the local accumulator
    ret,             \* list returned by the last get_all_orders call (else empty)
    dispOrders,      \* display_orders: the list being printed
    dispIdx,         \* display_orders: number of orders printed so far
    doc              \* paragraphs of the document last saved by export_orders_to_odt

vars == << engine, SessionLocal, enginesCreated, tables, suppliers, products,
           orders, order_items, now, openSessions, pc, outcome, sessNew,
           newOrders, newItems, k, j, total_amount, ret, dispOrders, dispIdx, doc >>

conn  == << engine, SessionLocal, enginesCreated >>
store == << suppliers, products, orders, order_items, now >>
fillLocals == << sessNew, newOrders, newItems, k, j, total_amount >>
dispLocals == << dispOrders, dispIdx >>

----------------------------------------------------------------------------
\* Bounds of the model.

\* number of distinct 8-character prefixes the random source can produce
NumPrefixes == 4
\* fill_with_sample_data is started only while its orders still fit this many rows
MaxOrders == 4
\* an operation is started only while fewer sessions than this are left open
MaxSessions == 1
\* connect() is called directly only while fewer engines than this were created
MaxEngines == 2

----------------------------------------------------------------------------
\* Sample data of fill_with_sample_data.

NoneVal == -1

SampleSupplier ==
    [name |-> "Waosa Supplier", contact_person |-> "Waosa Manager",
     email |-> "manager@waosa.com", phone |-> "123-456-7890"]

SampleProducts ==
    << [name |-> "Waosa Product A", price |-> 100, quantity |-> 50],
       [name |-> "Waosa Product B", price |-> 200, quantity |-> 30],
       [name |-> "Waosa Product C", price |-> 150, quantity |-> 20] >>

orders_data ==
    << [customer_name |-> "Alice Johnson", customer_email |-> "alice@waosa.com",
        items |-> << [product |-> 1, quantity |-> 2], [product |-> 2, quantity |-> 1] >>],
       [customer_name |-> "Bob Smith", customer_email |-> "bob@waosa.com",
        items |-> << [product |-> 3, quantity |-> 3], [product |-> 1, quantity |-> 1] >>] >>

----------------------------------------------------------------------------
\* generate_order_number: "ORD-" + uuid4().hex[:8].upper()

HexDigits == << "0", "1", "2", "3", "4", "5", "6", "7",
                "8", "9", "a", "b", "c", "d", "e", "f" >>

\* str.upper on one character of a hex string
Upper(c) ==
    CASE c = "a" -> "A" [] c = "b" -> "B" [] c = "c" -> "C"
      [] c = "d" -> "D" [] c = "e" -> "E" [] c = "f" -> "F"
      [] OTHER -> c

\* uuid4().hex: 32 lowercase hex characters, the 13th the version digit 4.
\* p selects the first 8 characters, t the rest, so that two different values
\* can agree on their first 8 characters.
UuidHex(p, t) ==
    [i \in 1..32 |->
        IF i = 13 THEN "4"
        ELSE IF i <= 8 THEN HexDigits[((5 * p + 3 * i) % 16) + 1]
        ELSE HexDigits[((t + i) % 16) + 1]]

UuidPool == { UuidHex(p, t) : p \in 1..NumPrefixes, t \in {0, 1} }

generate_order_number(u) ==
    << "O", "R", "D", "-" >> \o [i \in 1..8 |-> Upper(SubSeq(u, 1, 8)[i])]

----------------------------------------------------------------------------
\* DatabaseConnection

\* __init__ followed by nothing: engine and SessionLocal are None
Init ==
    /\ engine = 0 /\ SessionLocal = 0 /\ enginesCreated = 0
    /\ tables = FALSE
    /\ suppliers = << >> /\ products = << >> /\ orders = << >> /\ order_items = << >>
    /\ now = 0
    /\ openSessions = 0
    /\ pc = "idle" /\ outcome = "none"
    /\ sessNew = {} /\ newOrders = << >> /\ newItems = << >>
    /\ k = 0 /\ j = 0 /\ total_amount = 0
    /\ ret = << >> /\ dispOrders = << >> /\ dispIdx = 0
    /\ doc = << >>

\* connect(): always builds a new engine and a new session factory
connect ==
    /\ enginesCreated' = enginesCreated + 1
    /\ engine' = enginesCreated + 1
    /\ SessionLocal' = enginesCreated + 1

\* get_session(): connects when there is no factory, then returns a new
\* session; the caller's action counts the session in openSessions until it
\* calls close() on it
get_session ==
    IF SessionLocal = 0 THEN connect ELSE UNCHANGED conn

\* create_tables(): connects when there is no engine, then create_all
create_tables ==
    /\ IF engine = 0 THEN connect ELSE UNCHANGED conn
    /\ tables' = TRUE

----------------------------------------------------------------------------
\* The session of fill_with_sample_data. Objects are named by kind and index:
\* <<"supplier", 1>>, <<"product", n>>, <<"order", k>>, <<"item", m>>.

ItemsOfOrder(kk, items) ==
    { << "item", m >> : m \in { i \in 1..Len(items) : items[i].order = kk } }

ItemsOfProduct(n, items) ==
    { << "item", m >> : m \in { i \in 1..Len(items) : items[i].product = n } }

\* the objects one relationship() away from o (both sides of every
\* relationship are declared, each with the default save-update cascade)
Related(o, items) ==
    CASE o[1] = "item"     -> { << "order", items[o[2]].order >>,
                                << "product", items[o[2]].product >> }
      [] o[1] = "order"    -> ItemsOfOrder(o[2], items)
      [] o[1] = "product"  -> { << "supplier", 1 >> } \cup ItemsOfProduct(o[2], items)
      [] o[1] = "supplier" -> { << "product", n >> : n \in 1..Len(SampleProducts) }

RECURSIVE Cascade(_, _)
Cascade(S, items) ==
    LET T == S \cup UNION { Related(o, items) : o \in S }
    IN IF T = S THEN S ELSE Cascade(T, items)

\* session.add(o): o and everything reachable from it become pending
SessionAdd(new, o, items) == new \cup Cascade({o}, items)

\* a slip in line 123: the price and the quantity added instead of multiplied
ItemTotalSum(price, quantity) == price + quantity

\* item_total = item_data["product"].price * item_data["quantity"]
ItemTotal(price, quantity) == price * quantity

\* a slip in line 131: the total overwritten instead of accumulated
AddToTotalOverwrite(total, item_total) == item_total

\* total_amount += item_total
AddToTotal(total, item_total) == total + item_total

\* a slip in lines 123-129: the price always read from the first product
NewOrderItemFirstPrice(kk, item_data) ==
    LET price == SampleProducts[1].price
    IN [order |-> kk, product |-> item_data.product,
        quantity |-> item_data.quantity,
        unit_price |-> price,
        total_price |-> ItemTotal(price, item_data.quantity)]

\* OrderItem(order=order, product=..., quantity=..., unit_price=..., total_price=...)
NewOrderItem(kk, item_data) ==
    LET price == SampleProducts[item_data.product].price
    IN [order |-> kk, product |-> item_data.product,
        quantity |-> item_data.quantity,
        unit_price |-> price,
        total_price |-> ItemTotal(price, item_data.quantity)]

\* Order(order_number=..., customer_name=..., customer_email=..., status="completed")
NewOrder(order_data, u) ==
    [order_number |-> generate_order_number(u),
     customer_name |-> order_data.customer_name,
     customer_email |-> order_data.customer_email,
     status |-> "completed",
     total_amount |-> NoneVal]

ResetFill ==
    /\ sessNew' = {} /\ newOrders' = << >> /\ newItems' = << >>
    /\ k' = 0 /\ j' = 0 /\ total_amount' = 0

\* lines 85-111: the session is obtained, supplier, products and orders_data built
FillBegin ==
    /\ pc = "idle"
    /\ Len(orders) + Len(orders_data) <= MaxOrders
    /\ openSessions < MaxSessions
    /\ get_session
    /\ openSessions' = openSessions + 1
    /\ ResetFill
    /\ pc' = "fill_order"
    /\ outcome' = "none"
    /\ ret' = << >>
    /\ UNCHANGED << tables, store, dispLocals, doc >>

\* lines 113-121: the next order_data; the Order is built with a fresh number
FillNewOrder ==
    /\ pc = "fill_order"
    /\ k < Len(orders_data)
    /\ \E u \in UuidPool :
          newOrders' = Append(newOrders, NewOrder(orders_data[k + 1], u))
    /\ k' = k + 1
    /\ j' = 0
    /\ total_amount' = 0
    /\ pc' = "fill_item"
    /\ UNCHANGED << conn, tables, store, openSessions, outcome, sessNew, newItems,
                    ret, dispLocals, doc >>

\* lines 122-132: one item_data of the current order
FillItem ==
    /\ pc = "fill_item"
    /\ j < Len(orders_data[k].items)
    /\ LET order_item == NewOrderItem(k, orders_data[k].items[j + 1])
       IN /\ newItems' = Append(newItems, order_item)
          /\ total_amount' = AddToTotal(total_amount, order_item.total_price)
          /\ sessNew' = SessionAdd(sessNew, << "item", Len(newItems) + 1 >>, newItems')
    /\ j' = j + 1
    /\ UNCHANGED << conn, tables, store, openSessions, pc, outcome, newOrders, k,
                    ret, dispLocals, doc >>

\* lines 134-135: the total is stored on the order and the order added
FillEndOrder ==
    /\ pc = "fill_item"
    /\ j = Len(orders_data[k].items)
    /\ newOrders' = [newOrders EXCEPT ![k].total_amount = total_amount]
    /\ sessNew' = SessionAdd(sessNew, << "order", k >>, newItems)
    /\ pc' = "fill_order"
    /\ UNCHANGED << conn, tables, store, openSessions, outcome, newItems, k, j,
                    total_amount, ret, dispLocals, doc >>

\* lines 137-139: the supplier and the products are added
FillAddRest ==
    /\ pc = "fill_order"
    /\ k = Len(orders_data)
    /\ sessNew' = sessNew
                    \cup Cascade({ << "supplier", 1 >> }, newItems)
                    \cup UNION { Cascade({ << "product", n >> }, newItems) :
                                    n \in 1..Len(SampleProducts) }
    /\ pc' = "fill_commit"
    /\ UNCHANGED << conn, tables, store, openSessions, outcome, newOrders, newItems,
                    k, j, total_amount, ret, dispLocals, doc >>

----------------------------------------------------------------------------
\* session.commit(): the flush inserts the pending objects in one transaction.

\* indices 1..n of the objects of one kind that are pending, in ascending order
RECURSIVE PendingIdx(_, _)
PendingIdx(kind, n) ==
    IF n = 0 THEN << >>
    ELSE PendingIdx(kind, n - 1) \o (IF << kind, n >> \in sessNew THEN << n >> ELSE << >>)

\* position of index n among the pending objects of its kind; 0 when not pending
Rank(kind, n) ==
    IF << kind, n >> \in sessNew
    THEN Cardinality({ m \in 1..n : << kind, m >> \in sessNew })
    ELSE 0

\* a slip in the foreign key of an item: the order's position in this unit of
\* work instead of the primary key its INSERT was given
OrderIdLocal(kk) == kk

\* primary keys the INSERTs assign (autoincrement; rows are never deleted);
\* 0 is NULL, the foreign key of a reference to an object that is not pending
SupplierId == IF << "supplier", 1 >> \in sessNew THEN Len(suppliers) + 1 ELSE 0
ProductId(n) == IF Rank("product", n) = 0 THEN 0 ELSE Len(products) + Rank("product", n)
OrderId(kk) == IF Rank("order", kk) = 0 THEN 0 ELSE Len(orders) + Rank("order", kk)

SupplierRows == IF << "supplier", 1 >> \in sessNew THEN << SampleSupplier >> ELSE << >>

ProductRows ==
    LET idx == PendingIdx("product", Len(SampleProducts))
    IN [i \in 1..Len(idx) |->
          [name |-> SampleProducts[idx[i]].name,
           price |-> SampleProducts[idx[i]].price,
           quantity |-> SampleProducts[idx[i]].quantity,
           supplier_id |-> SupplierId]]

\* created_at = datetime.utcnow() at each INSERT: the i-th order row is
\* stamped i - 1 readings after the first, the clock advancing by tick (0 or
\* 1) between two readings; total_amount falls back to its default 0.0
OrderRows(tick) ==
    LET idx == PendingIdx("order", Len(newOrders))
    IN [i \in 1..Len(idx) |->
          [order_number |-> newOrders[idx[i]].order_number,
           customer_name |-> newOrders[idx[i]].customer_name,
           customer_email |-> newOrders[idx[i]].customer_email,
           total_amount |-> IF newOrders[idx[i]].total_amount = NoneVal
                            THEN 0 ELSE newOrders[idx[i]].total_amount,
           status |-> newOrders[idx[i]].status,
           created_at |-> now + (i - 1) * tick]]

ItemRows ==
    LET idx == PendingIdx("item", Len(newItems))
    IN [i \in 1..Len(idx) |->
          [order_id |-> OrderId(newItems[idx[i]].order),
           product_id |-> ProductId(newItems[idx[i]].product),
           quantity |-> newItems[idx[i]].quantity,
           unit_price |-> newItems[idx[i]].unit_price,
           total_price |-> newItems[idx[i]].total_price]]

\* order_number is unique=True: an INSERT fails when its number is already
\* in the table or was inserted earlier in the same flush
UniqueViolation ==
    LET idx == PendingIdx("order", Len(newOrders))
    IN \/ \E a \in 1..Len(idx) : \E i \in 1..Len(orders) :
             orders[i].order_number = newOrders[idx[a]].order_number
       \/ \E a, b \in 1..Len(idx) :
             a # b /\ newOrders[idx[a]].order_number = newOrders[idx[b]].order_number

\* the exception commit() raises, "" when it succeeds
CommitError ==
    IF ~tables THEN "OperationalError"
    ELSE IF UniqueViolation THEN "IntegrityError"
    ELSE ""

\* line 141, commit succeeds: every pending row becomes committed
FillCommitOk ==
    /\ pc = "fill_commit"
    /\ CommitError = ""
    /\ \E tick \in {0, 1} :
          /\ orders' = orders \o OrderRows(tick)
          /\ now' = now + Len(OrderRows(tick)) * tick
    /\ suppliers' = suppliers \o SupplierRows
    /\ products' = products \o ProductRows
    /\ order_items' = order_items \o ItemRows
    /\ pc' = "fill_close"
    /\ UNCHANGED << conn, tables, openSessions, outcome, fillLocals, ret, dispLocals, doc >>

\* commit() on a connection in autocommit mode: the rows inserted before the
\* failing INSERT stay in the store
FillCommitFailPartial ==
    /\ pc = "fill_commit"
    /\ CommitError # ""
    /\ outcome' = CommitError
    /\ pc' = "idle"
    /\ ResetFill
    /\ IF tables
       THEN /\ suppliers' = suppliers \o SupplierRows
            /\ products' = products \o ProductRows
            /\ orders' = orders \o SubSeq(OrderRows(0), 1, 1)
       ELSE UNCHANGED << suppliers, products, orders >>
    /\ UNCHANGED << conn, tables, order_items, now, openSessions, ret, dispLocals, doc >>

\* line 141, commit raises: the transaction is rolled back, the exception
\* leaves fill_with_sample_data and line 142 is never reached
FillCommitFail ==
    /\ pc = "fill_commit"
    /\ CommitError # ""
    /\ outcome' = CommitError
    /\ pc' = "idle"
    /\ ResetFill
    /\ UNCHANGED << conn, tables, store, openSessions, ret, dispLocals, doc >>

\* lines 142-143: session.close()
FillClose ==
    /\ pc = "fill_close"
    /\ openSessions' = openSessions - 1
    /\ outcome' = "ok"
    /\ pc' = "idle"
    /\ ResetFill
    /\ UNCHANGED << conn, tables, store, ret, dispLocals, doc >>

----------------------------------------------------------------------------
\* OrderManager

\* an Order object loaded from row i of table "orders"
OrderObj(i) == [id |-> i] @@ orders[i]

\* session.query(Order).all(): the query has no ORDER BY, so the order of the
\* rows is the store's choice. SQLite scans the table by rowid, forward, or
\* backward under PRAGMA reverse_unordered_selects: both are modelled.
ScanOrders(reverse) ==
    [i \in 1..Len(orders) |->
        OrderObj(IF reverse THEN Len(orders) + 1 - i ELSE i)]

QueryAllOrders == { ScanOrders(reverse) : reverse \in BOOLEAN }

\* session.query(OrderItem).filter_by(order_id=...).all()
ItemsOf(order_id) == { m \in 1..Len(order_items) : order_items[m].order_id = order_id }

\* session.query(Product).filter_by(id=...).first() is None
ProductMissing(product_id) == product_id \notin 1..Len(products)

\* get_all_orders(), lines 150-153: the query raises when the tables do not
\* exist, and then line 152 is never reached
GetAllOrders ==
    /\ pc = "idle"
    /\ openSessions < MaxSessions
    /\ get_session
    /\ IF tables
       THEN /\ ret' \in QueryAllOrders
            /\ outcome' = "ok"
            /\ UNCHANGED openSessions
       ELSE /\ ret' = << >>
            /\ outcome' = "OperationalError"
            /\ openSessions' = openSessions + 1
    /\ UNCHANGED << tables, store, pc, fillLocals, dispLocals, doc >>

\* display_orders(), line 156: the call of get_all_orders
DisplayBegin ==
    /\ pc = "idle"
    /\ openSessions < MaxSessions
    /\ get_session
    /\ ret' = << >>
    /\ IF tables
       THEN /\ dispOrders' \in QueryAllOrders
            /\ dispIdx' = 0
            /\ pc' = "display_loop"
            /\ outcome' = "none"
            /\ UNCHANGED openSessions
       ELSE /\ outcome' = "OperationalError"
            /\ openSessions' = openSessions + 1
            /\ UNCHANGED << pc, dispLocals >>
    /\ UNCHANGED << tables, store, fillLocals, doc >>

\* display_orders(), lines 158-170: one order; product.name on a missing
\* product raises before line 169
DisplayOrder ==
    /\ pc = "display_loop"
    /\ dispIdx < Len(dispOrders)
    /\ IF \E m \in ItemsOf(dispOrders[dispIdx + 1].id) :
             ProductMissing(order_items[m].product_id)
       THEN /\ outcome' = "AttributeError"
            /\ openSessions' = openSessions + 1
            /\ pc' = "idle"
            /\ dispOrders' = << >> /\ dispIdx' = 0
       ELSE /\ dispIdx' = dispIdx + 1
            /\ UNCHANGED << outcome, openSessions, pc, dispOrders >>
    /\ UNCHANGED << conn, tables, store, fillLocals, ret, doc >>

\* display_orders() returns after the last order
DisplayEnd ==
    /\ pc = "display_loop"
    /\ dispIdx = Len(dispOrders)
    /\ outcome' = "ok"
    /\ pc' = "idle"
    /\ dispOrders' = << >> /\ dispIdx' = 0
    /\ UNCHANGED << conn, tables, store, openSessions, fillLocals, ret, doc >>

----------------------------------------------------------------------------
\* ODTExporter: the document is the sequence of its paragraphs

\* lines 176-179: the title (its Cyrillic text transliterated) and an empty
\* paragraph
HeaderBlock == << [kind |-> "title", text |-> "OTCHET PO ZAKAZAM"], [kind |-> "empty"] >>

\* lines 182-194: the paragraphs of one order
OrderBlock(order) ==
    << [kind |-> "order_header", order_number |-> order.order_number],
       [kind |-> "customer_info", customer_name |-> order.customer_name],
       [kind |-> "amount_info", total_amount |-> order.total_amount,
                                status |-> order.status],
       [kind |-> "empty"] >>

\* a slip in line 181: the orders written last to first
RECURSIVE OrderBlocksReversed(_, _)
OrderBlocksReversed(os, n) ==
    IF n = 0 THEN << >> ELSE OrderBlock(os[n]) \o OrderBlocksReversed(os, n - 1)

\* the for loop of line 181 over orders[1..n]
RECURSIVE OrderBlocks(_, _)
OrderBlocks(os, n) ==
    IF n = 0 THEN << >> ELSE OrderBlocks(os, n - 1) \o OrderBlock(os[n])

export_orders_to_odt(os) == HeaderBlock \o OrderBlocks(os, Len(os))

\* exporter.export_orders_to_odt(orders) on the list get_all_orders returned
\* last (an empty list when no call returned one)
Export ==
    /\ pc = "idle"
    /\ doc' = export_orders_to_odt(ret)
    /\ outcome' = "ok"
    /\ ret' = << >>
    /\ UNCHANGED << conn, tables, store, openSessions, pc, fillLocals, dispLocals >>

----------------------------------------------------------------------------
\* Calls on the DatabaseConnection and the process

\* db.connect() called directly
Connect ==
    /\ pc = "idle"
    /\ enginesCreated < MaxEngines
    /\ connect
    /\ outcome' = "ok"
    /\ ret' = << >>
    /\ UNCHANGED << tables, store, openSessions, pc, fillLocals, dispLocals, doc >>

\* db.create_tables()
CreateTables ==
    /\ pc = "idle"
    /\ create_tables
    /\ outcome' = "ok"
    /\ ret' = << >>
    /\ UNCHANGED << store, openSessions, pc, fillLocals, dispLocals, doc >>

\* the process ends (anywhere) and the script is started again: a new
\* DatabaseConnection on the same database file; what was not committed is lost
NewProcess ==
    /\ engine' = 0 /\ SessionLocal' = 0 /\ enginesCreated' = 0
    /\ openSessions' = 0
    /\ pc' = "idle" /\ outcome' = "none"
    /\ ResetFill
    /\ ret' = << >> /\ dispOrders' = << >> /\ dispIdx' = 0
    /\ UNCHANGED << tables, store, doc >>

Next ==
    \/ Connect
    \/ CreateTables
    \/ FillBegin
    \/ FillNewOrder
    \/ FillItem
    \/ FillEndOrder
    \/ FillAddRest
    \/ FillCommitOk
    \/ FillCommitFail
    \/ FillClose
    \/ GetAllOrders
    \/ DisplayBegin
    \/ DisplayOrder
    \/ DisplayEnd
    \/ Export
    \/ NewProcess

Spec == Init /\ [][Next]_vars

----------------------------------------------------------------------------
\* Properties

RECURSIVE SumTotalPrice(_)
SumTotalPrice(S) ==
    IF S = {} THEN 0
    ELSE LET m == CHOOSE x \in S : TRUE
         IN order_items[m].total_price + SumTotalPrice(S \ {m})

\* C1: every committed order's total_amount is the sum of total_price over
\* exactly the committed order items whose order_id is that order
TotalAmountIsSumOfItems ==
    \A i \in 1..Len(orders) : orders[i].total_amount = SumTotalPrice(ItemsOf(i))

\* two runs of fill_with_sample_data have committed their orders
TwoRunsCommitted ==
    /\ Len(orders) = 2 * Len(orders_data)
    /\ \A i \in 1..Len(orders) : Cardinality(ItemsOf(i)) > 1

UpperHexDigits == { "0", "1", "2", "3", "4", "5", "6", "7",
                    "8", "9", "A", "B", "C", "D", "E", "F" }

\* ORD- followed by 8 uppercase hexadecimal characters
WellFormedNumber(n) ==
    /\ Len(n) = 12
    /\ SubSeq(n, 1, 4) = << "O", "R", "D", "-" >>
    /\ \A i \in 5..12 : n[i] \in UpperHexDigits

\* C2: every order number generated is ORD- and 8 uppercase hex characters
\* and, when it is accepted for an order of the unit of work, is in use
\* neither by a committed order nor by another order of the unit of work
OrderNumberCheckedAgainstExisting ==
    pc \in { "fill_order", "fill_item", "fill_commit" } =>
        \A a \in 1..Len(newOrders) :
            /\ WellFormedNumber(newOrders[a].order_number)
            /\ \A i \in 1..Len(orders) :
                  orders[i].order_number # newOrders[a].order_number
            /\ \A b \in 1..Len(newOrders) :
                  b # a => newOrders[b].order_number # newOrders[a].order_number

\* the number of items the order_data of a committed order has
ExpectedItems(o) ==
    LET d == CHOOSE x \in 1..Len(orders_data) :
                 orders_data[x].customer_name = o.customer_name
    IN Len(orders_data[d].items)

\* every committed order has all of its items, every committed item its order
OrdersComplete ==
    /\ \A i \in 1..Len(orders) : Cardinality(ItemsOf(i)) = ExpectedItems(orders[i])
    /\ \A m \in 1..Len(order_items) : order_items[m].order_id \in 1..Len(orders)

\* C3: the committed store holds whole orders only, and it changes in no step
\* but a commit that succeeds; a step that fails leaves it as it was
AtomicOrderCreation ==
    [][ /\ OrdersComplete'
        /\ \/ UNCHANGED << suppliers, products, orders, order_items >>
           \/ pc = "fill_commit" /\ pc' = "fill_close" /\ CommitError = "" ]_vars

\* a commit has failed on a uniqueness violation with orders already committed
CommitFailedOnFilledStore ==
    /\ outcome = "IntegrityError"
    /\ Len(orders) > 0

\* C4: once an operation has returned or failed, no session obtained from
\* get_session is left open
SessionsReleased == pc = "idle" => openSessions = 0

\* C5: every committed item's total_price is quantity * unit_price, and its
\* unit_price is the price of the product it references
ItemTotalIsQuantityTimesPrice ==
    \A m \in 1..Len(order_items) :
        /\ order_items[m].total_price = order_items[m].quantity * order_items[m].unit_price
        /\ order_items[m].product_id \in 1..Len(products)
        /\ order_items[m].unit_price = products[order_items[m].product_id].price

\* an item with a quantity above 1 is committed
ItemWithQuantityCommitted ==
    \E m \in 1..Len(order_items) : order_items[m].quantity = 3

\* the lines of a committed order: product name, product price, quantity
LinesOf(i) ==
    { << products[order_items[m].product_id].name,
         products[order_items[m].product_id].price,
         order_items[m].quantity >> : m \in ItemsOf(i) }

ScenarioA == { << "Waosa Product A", 100, 2 >>, << "Waosa Product B", 200, 1 >> }
ScenarioB == { << "Waosa Product C", 150, 3 >>, << "Waosa Product A", 100, 1 >> }

\* C6: the order for [(A, 2), (B, 1)] is committed with total_amount 400,
\* the order for [(C, 3), (A, 1)] with total_amount 550
ScenarioTotals ==
    \A i \in 1..Len(orders) :
        /\ LinesOf(i) = ScenarioA => orders[i].total_amount = 400
        /\ LinesOf(i) = ScenarioB => orders[i].total_amount = 550

\* both scenario orders are committed
BothScenariosCommitted ==
    /\ \E i \in 1..Len(orders) : LinesOf(i) = ScenarioA
    /\ \E i \in 1..Len(orders) : LinesOf(i) = ScenarioB

\* C7: every committed item references a committed order and a committed
\* product, and every committed order has at least one item
ReferencesResolve ==
    /\ \A m \in 1..Len(order_items) :
          /\ order_items[m].order_id \in 1..Len(orders)
          /\ order_items[m].product_id \in 1..Len(products)
    /\ \A i \in 1..Len(orders) : ItemsOf(i) # {}

\* the second run's items reference the second run's orders and products
SecondRunReferences ==
    \E m \in 1..Len(order_items) :
        /\ order_items[m].order_id > Len(orders_data)
        /\ order_items[m].product_id > Len(SampleProducts)

\* C8: a DatabaseConnection creates one engine at most, whatever the sequence
\* of connect, get_session and create_tables calls
ConnectIdempotent == enginesCreated <= 1

\* the document d is the header block, then one block per order of os, in
\* the order of os
Layout(d, os) ==
    /\ Len(d) = 2 + 4 * Len(os)
    /\ d[1].kind = "title"
    /\ d[2].kind = "empty"
    /\ \A i \in 1..Len(os) :
          /\ d[4 * i - 1] = [kind |-> "order_header", order_number |-> os[i].order_number]
          /\ d[4 * i] = [kind |-> "customer_info", customer_name |-> os[i].customer_name]
          /\ d[4 * i + 1] = [kind |-> "amount_info", total_amount |-> os[i].total_amount,
                                                      status |-> os[i].status]
          /\ d[4 * i + 2].kind = "empty"

\* C9: the document export_orders_to_odt writes is the header block followed
\* by exactly one block per order of its input, in the input's order; the
\* header block alone for an empty input
ExportWritesBlocksInInputOrder ==
    [][ doc' # doc => Layout(doc', ret) ]_vars

\* a document of four order blocks written from a list that starts with the
\* order created last
ReversedListExported ==
    /\ Len(doc) = 2 + 4 * 4
    /\ Len(orders) = 4
    /\ doc[3].order_number = orders[4].order_number

\* C10: get_all_orders returns every committed order exactly once, in
\* non-decreasing order of creation time
AllOrdersInCreationOrder ==
    (outcome = "ok" /\ ret # << >>) =>
        /\ Len(ret) = Len(orders)
        /\ \A i \in 1..Len(orders) : \E a \in 1..Len(ret) : ret[a] = OrderObj(i)
        /\ \A a, b \in 1..Len(ret) : a < b => ret[a].created_at <= ret[b].created_at

====
